---- MODULE Spec2Model ----
(***************************************************************************)
(* A model of sec-feed (src/main.go and the filter loader of               *)
(* src/unnamed/part_001): one invocation loads the filters, reconciles the *)
(* cached feed with the upstream feed, writes the cache and renders the    *)
(* filter matches, either to standard output or to one page file per       *)
(* entry.  Runs follow one another on the same cache file and site tree.   *)
(*                                                                         *)
(* Strings are sequences of one-character strings, so that the string      *)
(* functions of the code (Contains, Split, Trim, TrimSpace, ToLower) are   *)
(* computed character by character.                                        *)
(***************************************************************************)
EXTENDS Integers, Sequences, FiniteSets, TLC

(***************************************************************************)
(* Bounds of the model.                                                    *)
(***************************************************************************)
\* The number of invocations that follow one another on the same disk.
MaxRuns == 2
\* The largest number of entries the upstream feed serves in one answer.
MaxItems == 2

(***************************************************************************)
(* The string functions the code uses.                                     *)
(***************************************************************************)
WhiteSpace == {" ", "\t", "\n", "\r"}

\* strings.Index(s, sub): the 0-based place of the first sub in s, or -1.
Index(s, sub) ==
    LET hits == {i \in 0..(Len(s) - Len(sub)) : SubSeq(s, i + 1, i + Len(sub)) = sub}
    IN  IF hits = {} THEN -1 ELSE CHOOSE i \in hits : \A j \in hits : i <= j

\* strings.Contains(s, sub), case-sensitive.
Contains(s, sub) == Index(s, sub) >= 0

\* strings.Split(s, sep) for a non-empty sep: all the pieces between the
\* separators, in order; a string without the separator is its only piece.
RECURSIVE Split(_, _)
Split(s, sep) ==
    LET i == Index(s, sep)
    IN  IF i < 0 THEN <<s>>
        ELSE <<SubSeq(s, 1, i)>> \o Split(SubSeq(s, i + Len(sep) + 1, Len(s)), sep)

\* strings.TrimLeft / TrimRight / Trim(s, cutset).
RECURSIVE TrimLeft(_, _)
TrimLeft(s, cutset) ==
    IF s # <<>> /\ Head(s) \in cutset THEN TrimLeft(Tail(s), cutset) ELSE s

RECURSIVE TrimRight(_, _)
TrimRight(s, cutset) ==
    IF s # <<>> /\ s[Len(s)] \in cutset
    THEN TrimRight(SubSeq(s, 1, Len(s) - 1), cutset) ELSE s

Trim(s, cutset) == TrimRight(TrimLeft(s, cutset), cutset)

\* strings.TrimSpace(s).
TrimSpace(s) == Trim(s, WhiteSpace)

UpperCase == <<"A", "B", "C", "D", "E", "F", "G", "H", "I", "J", "K", "L", "M",
               "N", "O", "P", "Q", "R", "S", "T", "U", "V", "W", "X", "Y", "Z">>
LowerCase == <<"a", "b", "c", "d", "e", "f", "g", "h", "i", "j", "k", "l", "m",
               "n", "o", "p", "q", "r", "s", "t", "u", "v", "w", "x", "y", "z">>

\* strings.ToLower(s): upper-case letters mapped, every other character kept.
ToLower(s) ==
    [k \in 1..Len(s) |->
        IF \E u \in 1..Len(UpperCase) : UpperCase[u] = s[k]
        THEN LowerCase[CHOOSE u \in 1..Len(UpperCase) : UpperCase[u] = s[k]]
        ELSE s[k]]

\* filepath.Clean on a name without separators or dot components (no title of
\* the model has any): the empty path becomes ".", any other name is kept.
Clean(s) == IF s = <<>> THEN <<".">> ELSE s

\* template.JSEscapeString, applied to each tag by the page template.
JsEscaped == {"\\", "'", "\"", "<", ">", "&", "="}
JSEscape(s) == [k \in 1..Len(s) |-> IF s[k] \in JsEscaped THEN "\\u" ELSE s[k]]

\* The concatenation of a sequence of strings.
RECURSIVE Concat(_)
Concat(ss) == IF ss = <<>> THEN <<>> ELSE Head(ss) \o Concat(Tail(ss))

\* strings.Join(ss, sep).
RECURSIVE Join(_, _)
Join(ss, sep) ==
    IF ss = <<>> THEN <<>>
    ELSE IF Len(ss) = 1 THEN ss[1]
    ELSE ss[1] \o sep \o Join(Tail(ss), sep)

(***************************************************************************)
(* The entries the upstream feed can serve.  An entry's ID is what the     *)
(* feed source compares to tell a known entry from a new one.              *)
(***************************************************************************)
TitleExample == <<"C", "V", "E", "-", "2", "0", "2", "4", "-", "9", "9", "9", "9", " ", "(", "L", "i", "n", "u", "x", ",", " ", "K", "e", "r", "n", "e", "l", ")">>
TitleNoSpace == <<"c", "v", "e", "-", "2", "0", "2", "4", "-", "9", "9", "9", "9", " ", "(", "x", ",", "y", ")">>
TitleNoParen == <<"B", "a", "r">>

EntryTitle == <<TitleExample, TitleNoSpace, TitleNoParen>>
EntryLink == <<"nvd/1", "nvd/2", "nvd/3">>
EntryIds == 1..Len(EntryTitle)

\* An rss.Item: the fields the program reads or writes.
Item(id, read) ==
    [ID |-> id, Title |-> EntryTitle[id], Link |-> EntryLink[id], Read |-> read]

\* The answers of the upstream feed: sequences of distinct entries.
UpstreamAnswers ==
    UNION {{s \in [1..n -> EntryIds] : \A i, j \in 1..n : i # j => s[i] # s[j]}
              : n \in 0..MaxItems}

(***************************************************************************)
(* The filter directories an invocation can be pointed at: the entries of  *)
(* the tree in the order filepath.WalkDir visits them.                     *)
(***************************************************************************)
FilterCVE == <<"C", "V", "E">>
FilterNum == <<"9", "9", "9", "9">>
FilterLow == <<"c", "v", "e">>
FilterA == <<"a">>
FilterNone == <<"z", "z", "z">>

DirEntry(path, name, regular, lines) ==
    [path |-> path, name |-> name, regular |-> regular, lines |-> lines]

FilterDirs == <<
    [readErr |-> FALSE, entries |-> <<
        DirEntry("conf/f1", "f1", TRUE, <<<<>>, FilterCVE>>),
        DirEntry("conf/f2", "f2", TRUE, <<FilterNum>>) >>],
    [readErr |-> FALSE, entries |-> <<
        DirEntry("conf/f1", "f1", TRUE, <<FilterNone>>),
        DirEntry("conf/f3", "f3", TRUE, <<<<" ">>, FilterNum>>),
        DirEntry("conf/sub", "sub", FALSE, <<>>),
        DirEntry("conf/sub/f1", "f1", TRUE, <<FilterA>>) >>],
    [readErr |-> FALSE, entries |-> <<
        DirEntry("conf/f1", "f1", TRUE, <<FilterLow>>) >>],
    [readErr |-> FALSE, entries |-> <<
        DirEntry("conf/f1", "f1", TRUE, <<FilterCVE>>),
        DirEntry("conf/f2", "f2", TRUE, <<<<" ">>, <<>>>>) >>],
    [readErr |-> FALSE, entries |-> <<>>],
    [readErr |-> TRUE, entries |-> <<>>] >>

(***************************************************************************)
(* The filter loader (src/unnamed/part_001).                               *)
(***************************************************************************)
\* firstNonEmptyLine: the first line that is not blank, as it stands in the
\* file; a file with no such line is an ErrEmptyFilterFile naming its path.
RECURSIVE ScanLines(_)
ScanLines(lines) ==
    IF lines = <<>> THEN <<>>
    ELSE IF TrimSpace(Head(lines)) = <<>> THEN ScanLines(Tail(lines))
    ELSE Head(lines)

firstNonEmptyLine(entry) ==
    LET firstLine == ScanLines(entry.lines)
    IN  IF firstLine = <<>>
        THEN [err |-> "ErrEmptyFilterFile", file |-> entry.path, line |-> <<>>]
        ELSE [err |-> "nil", file |-> entry.path, line |-> firstLine]

\* The walk passing over a file with no filter in it.
RECURSIVE WalkDirSkipEmpty(_, _)
WalkDirSkipEmpty(entries, filters) ==
    IF entries = <<>> THEN [err |-> "nil", file |-> "", filters |-> filters]
    ELSE LET d == Head(entries)
             r == firstNonEmptyLine(d)
         IN  IF ~d.regular \/ r.err # "nil" THEN WalkDirSkipEmpty(Tail(entries), filters)
             ELSE WalkDirSkipEmpty(Tail(entries),
                          [n \in DOMAIN filters \cup {d.name} |->
                              IF n = d.name THEN r.line ELSE filters[n]])

\* The walk: entries in order, the first error ends it; a regular file's
\* filter is stored under the file's base name, a later one replacing it.
RECURSIVE WalkDir(_, _)
WalkDir(entries, filters) ==
    IF entries = <<>> THEN [err |-> "nil", file |-> "", filters |-> filters]
    ELSE LET d == Head(entries)
             r == firstNonEmptyLine(d)
         IN  IF ~d.regular THEN WalkDir(Tail(entries), filters)
             ELSE IF r.err # "nil" THEN [err |-> r.err, file |-> r.file, filters |-> <<>>]
             ELSE WalkDir(Tail(entries),
                          [n \in DOMAIN filters \cup {d.name} |->
                              IF n = d.name THEN r.line ELSE filters[n]])

\* WalkAllFilesInFilterDir: the mapping, or the error and no mapping.
WalkAllFilesInFilterDir(dir) ==
    IF dir.readErr THEN [err |-> "ReadDir", file |-> "", filters |-> <<>>]
    ELSE WalkDir(dir.entries, <<>>)

(***************************************************************************)
(* The feed snapshot, its JSON document and the feed source.               *)
(***************************************************************************)
\* A *rss.Feed: nil, or the entries in order and the unread count.
NilFeed == [nil |-> TRUE, Items |-> <<>>, Unread |-> 0]
Feed(items, unread) == [nil |-> FALSE, Items |-> items, Unread |-> unread]

\* json.Marshal(feed): the document's keys are the fields' json names, an
\* entry is the object of its four fields.
Marshal(feed) ==
    [items |-> [k \in 1..Len(feed.Items) |->
                   [id |-> feed.Items[k].ID, title |-> feed.Items[k].Title,
                    link |-> feed.Items[k].Link, read |-> feed.Items[k].Read]],
     unread |-> feed.Unread]

\* json.Unmarshal(data, &rss.Feed{}).
Unmarshal(doc) ==
    Feed([k \in 1..Len(doc.items) |->
             [ID |-> doc.items[k].id, Title |-> doc.items[k].title,
              Link |-> doc.items[k].link, Read |-> doc.items[k].read]],
         doc.unread)

\* The cache path: no file, a complete document, or a file cut short (empty
\* or a prefix of a document), which is no JSON document.
EmptyDoc == [items |-> <<>>, unread |-> 0]
AbsentFile == [kind |-> "absent", data |-> EmptyDoc]
PartialFile == [kind |-> "partial", data |-> EmptyDoc]
DocFile(doc) == [kind |-> "doc", data |-> doc]

\* loadCachedFeed: os.ReadFile, then json.Unmarshal.
loadCachedFeed(file, readable) ==
    IF file.kind = "absent" THEN [feed |-> NilFeed, err |-> "ErrNotExist"]
    ELSE IF ~readable THEN [feed |-> NilFeed, err |-> "ErrPermission"]
    ELSE IF file.kind = "partial" THEN [feed |-> NilFeed, err |-> "SyntaxError"]
    ELSE [feed |-> Unmarshal(file.data), err |-> "nil"]

\* rss.Fetch: every entry of the answer, unread.
Fetch(answer) ==
    Feed([k \in 1..Len(answer) |-> Item(answer[k], FALSE)], Len(answer))

\* feed.Update: the entries of the answer the snapshot does not hold are
\* appended unread, in the answer's order; the entries it holds are kept.
RECURSIVE Update(_, _)
Update(feed, answer) ==
    IF answer = <<>> THEN feed
    ELSE IF \E k \in 1..Len(feed.Items) : feed.Items[k].ID = Head(answer)
    THEN Update(feed, Tail(answer))
    ELSE Update(Feed(Append(feed.Items, Item(Head(answer), FALSE)), feed.Unread + 1),
                Tail(answer))

\* fetch_feed returning every update error, whatever ignoreUpdate says.
fetch_feedStrict(file, readable, upstream, ignoreUpdate) ==
    LET ld == loadCachedFeed(file, readable)
    IN  IF ld.err # "ErrNotExist"
        THEN IF ld.feed.nil
             THEN [feed |-> NilFeed, cached |-> FALSE, err |-> "nil", panic |-> TRUE,
                   calls |-> <<>>]
             ELSE IF ~upstream.ok
             THEN [feed |-> NilFeed, cached |-> FALSE, err |-> "update", panic |-> FALSE,
                   calls |-> <<"update">>]
             ELSE [feed |-> Update(ld.feed, upstream.answer), cached |-> TRUE,
                   err |-> "nil", panic |-> FALSE, calls |-> <<"update">>]
        ELSE IF ~upstream.ok
             THEN [feed |-> NilFeed, cached |-> FALSE, err |-> "fetch", panic |-> FALSE,
                   calls |-> <<"fetch">>]
             ELSE [feed |-> Fetch(upstream.answer), cached |-> FALSE,
                   err |-> "nil", panic |-> FALSE, calls |-> <<"fetch">>]

\* fetch_feed fetching afresh when the update of the loaded snapshot fails.
fetch_feedRetry(file, readable, upstream, ignoreUpdate) ==
    LET ld == loadCachedFeed(file, readable)
    IN  IF ld.err # "ErrNotExist"
        THEN IF ld.feed.nil
             THEN [feed |-> NilFeed, cached |-> FALSE, err |-> "nil", panic |-> TRUE,
                   calls |-> <<>>]
             ELSE IF ~upstream.ok /\ ignoreUpdate
             THEN [feed |-> ld.feed, cached |-> TRUE, err |-> "nil", panic |-> FALSE,
                   calls |-> <<"update", "fetch">>]
             ELSE IF ~upstream.ok
             THEN [feed |-> NilFeed, cached |-> FALSE, err |-> "update", panic |-> FALSE,
                   calls |-> <<"update", "fetch">>]
             ELSE [feed |-> Update(ld.feed, upstream.answer), cached |-> TRUE,
                   err |-> "nil", panic |-> FALSE, calls |-> <<"update">>]
        ELSE IF ~upstream.ok
             THEN [feed |-> NilFeed, cached |-> FALSE, err |-> "fetch", panic |-> FALSE,
                   calls |-> <<"fetch">>]
             ELSE [feed |-> Fetch(upstream.answer), cached |-> FALSE,
                   err |-> "nil", panic |-> FALSE, calls |-> <<"fetch">>]

\* fetch_feed.  upstream is the feed source's behaviour in this invocation:
\* whether it answers, and with what.  A load that failed for another reason
\* than a missing file leaves feed nil, and feed.Update() dereferences it
\* before it reaches the feed source.  calls are the calls that reach the
\* feed source, in order.
fetch_feed(file, readable, upstream, ignoreUpdate) ==
    LET loaded == loadCachedFeed(file, readable)
    IN  IF loaded.err # "ErrNotExist"
        THEN IF loaded.feed.nil
             THEN [feed |-> NilFeed, cached |-> FALSE, err |-> "nil", panic |-> TRUE,
                   calls |-> <<>>]
             ELSE IF ~upstream.ok /\ ignoreUpdate
             THEN [feed |-> loaded.feed, cached |-> TRUE, err |-> "nil", panic |-> FALSE,
                   calls |-> <<"update">>]
             ELSE IF ~upstream.ok
             THEN [feed |-> NilFeed, cached |-> FALSE, err |-> "update", panic |-> FALSE,
                   calls |-> <<"update">>]
             ELSE [feed |-> Update(loaded.feed, upstream.answer), cached |-> TRUE,
                   err |-> "nil", panic |-> FALSE, calls |-> <<"update">>]
        ELSE IF ~upstream.ok
             THEN [feed |-> NilFeed, cached |-> FALSE, err |-> "fetch", panic |-> FALSE,
                   calls |-> <<"fetch">>]
             ELSE [feed |-> Fetch(upstream.answer), cached |-> FALSE,
                   err |-> "nil", panic |-> FALSE, calls |-> <<"fetch">>]

\* cacheFeed without its "feed.Unread = 0".
MarkAllReadKeepCount(feed) ==
    Feed([k \in 1..Len(feed.Items) |-> [feed.Items[k] EXCEPT !.Read = TRUE]], feed.Unread)

\* cacheFeed leaving the entries as they are.
MarkAllReadNot(feed) == feed

\* The first half of cacheFeed: every entry marked read, the unread count 0.
MarkAllRead(feed) ==
    Feed([k \in 1..Len(feed.Items) |-> [feed.Items[k] EXCEPT !.Read = TRUE]], 0)

\* The second half, os.WriteFile(cachePath, data, 0644), opens the path with
\* O_WRONLY|O_CREATE|O_TRUNC and then writes: it ends with the document
\* written, with the path untouched (the open failed), or with the file cut
\* short (the write failed or was interrupted after the truncation).
WriteFile(file, doc, how) ==
    CASE how = "ok" -> [file |-> DocFile(doc), err |-> "nil"]
      [] how = "openfail" -> [file |-> file, err |-> "open"]
      [] how = "partial" -> [file |-> PartialFile, err |-> "write"]

WriteOutcomes == {"ok", "openfail", "partial"}

\* cacheFeed: the snapshot in memory after it, the file and the error.
cacheFeed(file, feed, how) ==
    LET marked == MarkAllRead(feed)
        w == WriteFile(file, Marshal(marked), how)
    IN  [feed |-> marked, file |-> w.file, err |-> w.err]

(***************************************************************************)
(* The filter matching, the same loop in cmdNewItems, cmdAll, cmdGenerate. *)
(* Entries are held by pointer: a candidate is its place in feed.Items.    *)
(* order is the order in which this range over the filter map yields the   *)
(* filters.                                                                *)
(***************************************************************************)
\* The orders a range over the map can take.
Orders(filters) ==
    {o \in [1..Cardinality(DOMAIN filters) -> DOMAIN filters] :
        \A i, j \in DOMAIN o : i # j => o[i] # o[j]}

\* The inner loop without its break: one append for each filter that matches.
RECURSIVE FilterLoopNoBreak(_, _, _, _, _)
FilterLoopNoBreak(items, c, filters, order, k) ==
    IF k > Len(order) THEN <<>>
    ELSE (IF Contains(items[c].Title, filters[order[k]]) THEN <<c>> ELSE <<>>)
            \o FilterLoopNoBreak(items, c, filters, order, k + 1)

\* The inner loop from filter k on: the entry is appended at the first filter
\* its title contains, and the loop breaks.
RECURSIVE FilterLoop(_, _, _, _, _)
FilterLoop(items, c, filters, order, k) ==
    IF k > Len(order) THEN <<>>
    ELSE IF Contains(items[c].Title, filters[order[k]]) THEN <<c>>
    ELSE FilterLoop(items, c, filters, order, k + 1)

\* The outer loop over the candidates, in their order.
RECURSIVE Match(_, _, _, _)
Match(items, candidates, filters, order) ==
    IF candidates = <<>> THEN <<>>
    ELSE FilterLoop(items, Head(candidates), filters, order, 1)
            \o Match(items, Tail(candidates), filters, order)

\* cmdNewItems' candidates: the unread entries of a snapshot that came from
\* the cache, none of a fetched one.
RECURSIVE Unread(_, _)
Unread(items, k) ==
    IF k > Len(items) THEN <<>>
    ELSE (IF ~items[k].Read THEN <<k>> ELSE <<>>) \o Unread(items, k + 1)

\* cmdNewItems without its "if cached".
NewItemsUncached(feed, cached) == Unread(feed.Items, 1)

NewItems(feed, cached) == IF cached THEN Unread(feed.Items, 1) ELSE <<>>

\* cmdAll taking the unread entries, as cmdNewItems does.
AllItemsUnread(feed) == Unread(feed.Items, 1)

\* cmdAll's and cmdGenerate's candidates: every entry.
AllItems(feed) == [k \in 1..Len(feed.Items) |-> k]

(***************************************************************************)
(* The page of a matched entry (cmdGenerate).                              *)
(***************************************************************************)
\* The title split at "(": without one there is no tmp[1], and the index
\* expression panics.
HasParen(title) == Len(Split(title, <<"(">>)) >= 2

\* The tags split at the comma alone.
TagSeparatorComma == <<",">>

TagSeparator == <<",", " ">>

\* PageMeta of an entry whose title has a "(".
PageMeta(item) ==
    LET tmp == Split(item.Title, <<"(">>)
        tmpTags == TrimSpace(Trim(tmp[2], {"(", ")"}))
    IN  [Title |-> TrimSpace(tmp[1]), Link |-> item.Link,
         Tags |-> Split(tmpTags, TagSeparator)]

NoMeta == [Title |-> <<>>, Link |-> "", Tags |-> <<>>]

\* The page file's name under <site>/content/cve/.
FileName(meta) == Clean(ToLower(meta.Title)) \o <<".md">>

\* The writes outputTemplate.Execute makes for a page, one per node of the
\* template: the fixed text and the substituted fields in turn.
RECURSIVE TagChunks(_)
TagChunks(tags) ==
    IF tags = <<>> THEN <<>>
    ELSE << <<"\n", "-">>, JSEscape(Head(tags)) >> \o TagChunks(Tail(tags))

PageChunks(meta) ==
    << <<"title:">>, meta.Title, <<"\n", "cve:", meta.Link>>, <<"\n", "tags:">> >>
        \o TagChunks(meta.Tags) \o << <<"\n", "---", "\n">> >>

\* The whole page.
Page(meta) == Concat(PageChunks(meta))

\* os.OpenFile(fileName, os.O_CREATE|os.O_WRONLY, 0644) and the writes that
\* follow: the bytes go over the start of what the file held, and what it
\* held beyond them stays.
WriteOver(old, bytes) == bytes \o SubSeq(old, Len(bytes) + 1, Len(old))

(***************************************************************************)
(* The state.                                                              *)
(***************************************************************************)
VARIABLES
    run,            \* the number of the invocation
    pc,             \* where the invocation stands
    cmd,            \* flag.Arg(0)
    outcome,        \* "running", "ok" (exit 0), "fatal" (log.Fatal), "panic"
    failedAt,       \* the step at which the invocation failed, "" if none did
    filters,        \* the filter map
    feed,           \* the snapshot in memory
    cached,         \* fetch_feed's second result
    newItems,       \* cmdNewItems' candidates
    matched,        \* the entries matching a filter
    idx,            \* the number of matched entries the output loop has taken
    meta,           \* the PageMeta of the last entry cmdGenerate took
    stdout,         \* the records written to standard output, in order
    cacheFileData,  \* the file at the cache path
    site,           \* the page files: name -> content
    startCache,     \* the file at the cache path when the invocation began
    startSite,      \* the page files when the invocation began
    loaded,         \* how loading the cache ended: "none" (not tried), "doc",
                    \* "notfound", "error"
    net,            \* how the feed source answered: "none" (not asked), "ok",
                    \* "failed"
    wrote,          \* the cache write of this invocation has completed
    opened,         \* the matched entries whose page file was opened, in order
    filterDir,      \* the filter directory the invocation was pointed at
    tmpl,           \* how template.Parse ended: "none" (not tried), "ok", "error"
    io              \* the calls on the feed source ("update", "fetch") and the
                    \* cache writes tried ("write"), in order

vars == <<run, pc, cmd, outcome, failedAt, filters, feed, cached, newItems,
          matched, idx, meta, stdout, cacheFileData, site, startCache,
          startSite, loaded, net, wrote, opened, filterDir, tmpl, io>>

disk == <<cacheFileData, site>>
memory == <<filters, feed, cached, newItems, matched, idx, meta>>
history == <<startCache, startSite, loaded, net, wrote, opened>>
config == <<filterDir, tmpl, io>>

\* No directory: the invocation has not come to its filters yet.
NoDir == [readErr |-> FALSE, entries |-> <<>>]

Commands == {"new", "all", "generate", "", "bogus"}
Modes == {"new", "all", "generate"}

\* The snapshot's entry a pointer stands for.
At(c) == feed.Items[c]

\* A page file's content, empty when there is no file.
ContentIn(files, name) == IF name \in DOMAIN files THEN files[name] ELSE <<>>
Content(name) == ContentIn(site, name)

Init ==
    /\ run = 1
    /\ pc = "main"
    /\ cmd = ""
    /\ outcome = "running"
    /\ failedAt = ""
    /\ filters = <<>>
    /\ feed = NilFeed
    /\ cached = FALSE
    /\ newItems = <<>>
    /\ matched = <<>>
    /\ idx = 0
    /\ meta = NoMeta
    /\ stdout = <<>>
    /\ cacheFileData = AbsentFile
    /\ site = <<>>
    /\ startCache = AbsentFile
    /\ startSite = <<>>
    /\ loaded = "none"
    /\ net = "none"
    /\ wrote = FALSE
    /\ opened = <<>>
    /\ filterDir = NoDir
    /\ tmpl = "none"
    /\ io = <<>>

\* log.Fatal, or an error returned to main, which log.Fatals it.
Fatal ==
    /\ pc' = "done"
    /\ outcome' = "fatal"
    /\ failedAt' = pc

\* A run-time panic: the process dies where it stands.
Panic ==
    /\ pc' = "done"
    /\ outcome' = "panic"
    /\ failedAt' = pc

\* The invocation goes on, to step p.
Goto(p) ==
    /\ pc' = p
    /\ UNCHANGED <<outcome, failedAt>>

\* main going on with no filters when the filters did not load.
LoadFiltersIgnoreError(arg, dir) ==
    /\ pc = "main"
    /\ cmd' = arg
    /\ filterDir' = dir
    /\ filters' = WalkAllFilesInFilterDir(dir).filters
    /\ IF arg \in Modes THEN Goto("fetch") ELSE Fatal
    /\ UNCHANGED <<run, feed, cached, newItems, matched, idx, meta, stdout, disk,
                   history, tmpl, io>>

(***************************************************************************)
(* main, up to the switch: the flags are parsed and the filters loaded.    *)
(***************************************************************************)
LoadFilters(arg, dir) ==
    /\ pc = "main"
    /\ cmd' = arg
    /\ filterDir' = dir
    /\ LET r == WalkAllFilesInFilterDir(dir)
       IN  IF r.err # "nil"
           THEN Fatal /\ UNCHANGED filters
           ELSE /\ filters' = r.filters
                /\ IF arg \in Modes THEN Goto("fetch") ELSE Fatal
    /\ UNCHANGED <<run, feed, cached, newItems, matched, idx, meta, stdout, disk,
                   history, tmpl, io>>

\* Every mode tolerating a failed update.
IgnoreUpdateAll(mode) == TRUE

(***************************************************************************)
(* fetch_feed, called with ignoreUpdate = false by "new" and true by "all" *)
(* and "generate".                                                         *)
(***************************************************************************)
IgnoreUpdate(mode) == mode # "new"

Upstreams ==
    {[ok |-> FALSE, answer |-> <<>>]} \cup {[ok |-> TRUE, answer |-> a] : a \in UpstreamAnswers}

\* What the invocation met: how the load ended, and the feed source's answer
\* when the load left something to ask it for.
LoadResult(file, readable) ==
    LET err == loadCachedFeed(file, readable).err
    IN  IF err = "nil" THEN "doc" ELSE IF err = "ErrNotExist" THEN "notfound" ELSE "error"

NetResult(file, readable, upstream) ==
    IF LoadResult(file, readable) = "error" THEN "none"
    ELSE IF upstream.ok THEN "ok" ELSE "failed"

\* parses: url.Parse takes the configured URL; fetch_feed log.Fatals one it
\* does not, before it looks at the cache.
FetchFeed(parses, readable, upstream) ==
    /\ pc = "fetch"
    /\ IF ~parses
       THEN Fatal /\ UNCHANGED <<feed, cached, loaded, net, io>>
       ELSE /\ loaded' = LoadResult(cacheFileData, readable)
            /\ net' = NetResult(cacheFileData, readable, upstream)
            /\ LET r == fetch_feed(cacheFileData, readable, upstream, IgnoreUpdate(cmd))
               IN  /\ io' = io \o r.calls
                   /\ IF r.panic
                      THEN Panic /\ UNCHANGED <<feed, cached>>
                      ELSE IF r.err # "nil"
                      THEN Fatal /\ UNCHANGED <<feed, cached>>
                      ELSE /\ feed' = r.feed
                           /\ cached' = r.cached
                           /\ Goto("cache")
    /\ UNCHANGED <<run, cmd, filters, newItems, matched, idx, meta, stdout, disk,
                   startCache, startSite, wrote, opened, filterDir, tmpl>>

\* The head of the commands with cacheFeed's error dropped.
CacheStepIgnoreError(how) ==
    /\ pc = "cache"
    /\ newItems' = IF cmd = "new" THEN NewItems(feed, cached) ELSE <<>>
    /\ io' = Append(io, "write")
    /\ LET r == cacheFeed(cacheFileData, feed, how)
       IN  /\ feed' = r.feed
           /\ cacheFileData' = r.file
           /\ Goto("template")
           /\ wrote' = (r.err = "nil")
    /\ UNCHANGED <<run, cmd, filters, cached, matched, idx, meta, stdout, site,
                   startCache, startSite, loaded, net, opened, filterDir, tmpl>>

\* The command going on to its template without calling cacheFeed.
CacheStepSkip(how) ==
    /\ pc = "cache"
    /\ newItems' = IF cmd = "new" THEN NewItems(feed, cached) ELSE <<>>
    /\ Goto("template")
    /\ UNCHANGED <<run, cmd, filters, feed, cached, matched, idx, meta, stdout, disk,
                   history, config>>

\* cmdNewItems collecting the unread entries after cacheFeed has run.
CacheStepCollectAfter(how) ==
    /\ pc = "cache"
    /\ io' = Append(io, "write")
    /\ LET r == cacheFeed(cacheFileData, feed, how)
       IN  /\ feed' = r.feed
           /\ newItems' = IF cmd = "new" THEN NewItems(r.feed, cached) ELSE <<>>
           /\ cacheFileData' = r.file
           /\ IF r.err # "nil"
              THEN Fatal /\ UNCHANGED wrote
              ELSE Goto("template") /\ wrote' = TRUE
    /\ UNCHANGED <<run, cmd, filters, cached, matched, idx, meta, stdout, site,
                   startCache, startSite, loaded, net, opened, filterDir, tmpl>>

(***************************************************************************)
(* The head of cmdNewItems, cmdAll and cmdGenerate: cmdNewItems collects   *)
(* its candidates, and each then calls cacheFeed and returns its error.    *)
(***************************************************************************)
CacheStep(how) ==
    /\ pc = "cache"
    /\ newItems' = IF cmd = "new" THEN NewItems(feed, cached) ELSE <<>>
    /\ io' = Append(io, "write")
    /\ LET r == cacheFeed(cacheFileData, feed, how)
       IN  /\ feed' = r.feed
           /\ cacheFileData' = r.file
           /\ IF r.err # "nil"
              THEN Fatal /\ UNCHANGED wrote
              ELSE Goto("template") /\ wrote' = TRUE
    /\ UNCHANGED <<run, cmd, filters, cached, matched, idx, meta, stdout, site,
                   startCache, startSite, loaded, net, opened, filterDir, tmpl>>

\* template.Parse taking any format.
ParseTemplateLenient(valid) ==
    /\ pc = "template"
    /\ tmpl' = IF cmd # "generate" /\ ~valid THEN "error" ELSE "ok"
    /\ Goto("match")
    /\ UNCHANGED <<run, cmd, memory, stdout, disk, history, filterDir, io>>

(***************************************************************************)
(* template.Parse: of the configured format in "new" and "all", which may  *)
(* be malformed, and of the fixed page template in "generate".             *)
(***************************************************************************)
ParseTemplate(valid) ==
    /\ pc = "template"
    /\ tmpl' = IF cmd # "generate" /\ ~valid THEN "error" ELSE "ok"
    /\ IF cmd # "generate" /\ ~valid THEN Fatal ELSE Goto("match")
    /\ UNCHANGED <<run, cmd, memory, stdout, disk, history, filterDir, io>>

(***************************************************************************)
(* The matching loop.                                                      *)
(***************************************************************************)
Candidates == IF cmd = "new" THEN newItems ELSE AllItems(feed)

MatchStep(order) ==
    /\ pc = "match"
    /\ matched' = Match(feed.Items, Candidates, filters, order)
    /\ Goto("output")
    /\ UNCHANGED <<run, cmd, filters, feed, cached, newItems, idx, meta,
                   stdout, disk, history, config>>

(***************************************************************************)
(* The output loop of cmdNewItems and cmdAll: one record per match.  An    *)
(* Execute that fails may have written the head of its record.             *)
(***************************************************************************)
Record(item, complete) == [Title |-> item.Title, Link |-> item.Link, complete |-> complete]

EmitResults == {"ok", "cut", "fail"}

Emit(result) ==
    /\ pc = "output"
    /\ cmd \in {"new", "all"}
    /\ idx < Len(matched)
    /\ idx' = idx + 1
    /\ CASE result = "ok" ->
              /\ stdout' = Append(stdout, Record(At(matched[idx + 1]), TRUE))
              /\ Goto("output")
         [] result = "cut" ->
              /\ stdout' = Append(stdout, Record(At(matched[idx + 1]), FALSE))
              /\ Fatal
         [] result = "fail" ->
              /\ UNCHANGED stdout
              /\ Fatal
    /\ UNCHANGED <<run, cmd, filters, feed, cached, newItems, matched, meta, disk,
                   history, config>>

(***************************************************************************)
(* The output loop of cmdGenerate: one page file per match.                *)
(***************************************************************************)
\* The file after an Execute that made n of the page's writes.
Written(old, chunks, n) == WriteOver(old, Concat(SubSeq(chunks, 1, n)))

\* An entry whose title has no "(" skipped, and the batch going on.
GenerateSkipNoParen ==
    /\ pc = "output"
    /\ cmd = "generate"
    /\ idx < Len(matched)
    /\ ~HasParen(At(matched[idx + 1]).Title)
    /\ idx' = idx + 1
    /\ Goto("output")
    /\ UNCHANGED <<run, cmd, filters, feed, cached, newItems, matched, meta, stdout,
                   disk, history, config>>

\* The entry's title has no "(": tmp[1] panics.
GeneratePanic ==
    /\ pc = "output"
    /\ cmd = "generate"
    /\ idx < Len(matched)
    /\ ~HasParen(At(matched[idx + 1]).Title)
    /\ Panic
    /\ UNCHANGED <<run, cmd, memory, stdout, disk, history, config>>

\* The page file cannot be opened.
GenerateOpenFail ==
    /\ pc = "output"
    /\ cmd = "generate"
    /\ idx < Len(matched)
    /\ HasParen(At(matched[idx + 1]).Title)
    /\ meta' = PageMeta(At(matched[idx + 1]))
    /\ idx' = idx + 1
    /\ Fatal
    /\ UNCHANGED <<run, cmd, filters, feed, cached, newItems, matched, stdout, disk,
                   history, config>>

\* The page file is opened and Execute makes n of its writes: all of them,
\* or fewer and an error.
Generate(n) ==
    /\ pc = "output"
    /\ cmd = "generate"
    /\ idx < Len(matched)
    /\ HasParen(At(matched[idx + 1]).Title)
    /\ LET m == PageMeta(At(matched[idx + 1]))
           chunks == PageChunks(m)
           name == FileName(m)
       IN  /\ n \in 0..Len(chunks)
           /\ meta' = m
           /\ site' = [f \in DOMAIN site \cup {name} |->
                          IF f = name THEN Written(Content(name), chunks, n) ELSE site[f]]
           /\ IF n = Len(chunks) THEN Goto("output") ELSE Fatal
    /\ idx' = idx + 1
    /\ opened' = Append(opened, matched[idx + 1])
    /\ UNCHANGED <<run, cmd, filters, feed, cached, newItems, matched, stdout,
                   cacheFileData, startCache, startSite, loaded, net, wrote, config>>

\* The number of writes the page of the entry at hand takes.
PageWrites ==
    IF pc = "output" /\ cmd = "generate" /\ idx < Len(matched)
          /\ HasParen(At(matched[idx + 1]).Title)
    THEN Len(PageChunks(PageMeta(At(matched[idx + 1]))))
    ELSE 0

(***************************************************************************)
(* The loop is over: the command returns nil and main ends.                *)
(***************************************************************************)
Finish ==
    /\ pc = "output"
    /\ cmd \in Modes
    /\ idx = Len(matched)
    /\ pc' = "done"
    /\ outcome' = "ok"
    /\ UNCHANGED <<run, cmd, failedAt, memory, stdout, disk, history, config>>

(***************************************************************************)
(* The next invocation, on the disk the last one left.                     *)
(***************************************************************************)
NextRun ==
    /\ pc = "done"
    /\ run < MaxRuns
    /\ run' = run + 1
    /\ pc' = "main"
    /\ cmd' = ""
    /\ outcome' = "running"
    /\ failedAt' = ""
    /\ filters' = <<>>
    /\ feed' = NilFeed
    /\ cached' = FALSE
    /\ newItems' = <<>>
    /\ matched' = <<>>
    /\ idx' = 0
    /\ meta' = NoMeta
    /\ stdout' = <<>>
    /\ startCache' = cacheFileData
    /\ startSite' = site
    /\ loaded' = "none"
    /\ net' = "none"
    /\ wrote' = FALSE
    /\ opened' = <<>>
    /\ filterDir' = NoDir
    /\ tmpl' = "none"
    /\ io' = <<>>
    /\ UNCHANGED disk

Next ==
    \/ \E arg \in Commands, d \in DOMAIN FilterDirs : LoadFilters(arg, FilterDirs[d])
    \/ \E parses, readable \in BOOLEAN, upstream \in Upstreams :
          FetchFeed(parses, readable, upstream)
    \/ \E how \in WriteOutcomes : CacheStep(how)
    \/ \E valid \in BOOLEAN : ParseTemplate(valid)
    \/ \E order \in Orders(filters) : MatchStep(order)
    \/ \E result \in EmitResults : Emit(result)
    \/ GeneratePanic
    \/ GenerateOpenFail
    \/ \E n \in 0..PageWrites : Generate(n)
    \/ Finish
    \/ NextRun

Spec == Init /\ [][Next]_vars

(***************************************************************************)
(* The filter loader on its own: main pointed at any tree of a small       *)
(* family.  A tree is conf/f1, conf/f2 and, under conf/sub, f1 and f2      *)
(* again, each absent or holding one of a few contents, listed in the      *)
(* lexical order filepath.WalkDir visits them in.                          *)
(***************************************************************************)
TreeFiles == <<
    [path |-> "conf/f1", name |-> "f1", sub |-> FALSE],
    [path |-> "conf/f2", name |-> "f2", sub |-> FALSE],
    [path |-> "conf/sub/f1", name |-> "f1", sub |-> TRUE],
    [path |-> "conf/sub/f2", name |-> "f2", sub |-> TRUE] >>

\* What a file holds: a filter; blank lines and then two filters; a filter
\* with a blank before it on its line; blank lines only; nothing.
FileContents == {
    <<FilterCVE>>,
    << <<" ">>, <<>>, FilterA, FilterNum >>,
    << <<" ">> \o FilterLow >>,
    << <<" ">>, <<>> >>,
    <<>> }

\* A place in the tree: no file there, or a file and its lines.
Absent == [present |-> FALSE, lines |-> <<>>]
Places == {Absent} \cup {[present |-> TRUE, lines |-> l] : l \in FileContents}

\* The entries of the tree in which file k holds c[k].
TreeEntries(c) ==
    LET file(k) == DirEntry(TreeFiles[k].path, TreeFiles[k].name, TRUE, c[k].lines)
        top == SelectSeq(<<1, 2>>, LAMBDA k : c[k].present)
        low == SelectSeq(<<3, 4>>, LAMBDA k : c[k].present)
    IN  [k \in 1..Len(top) |-> file(top[k])]
        \o (IF low = <<>> THEN <<>> ELSE <<DirEntry("conf/sub", "sub", FALSE, <<>>)>>)
        \o [k \in 1..Len(low) |-> file(low[k])]

FilterTrees ==
    {[readErr |-> FALSE, entries |-> TreeEntries(c)] :
        c \in [1..Len(TreeFiles) -> Places]}
    \cup {[readErr |-> TRUE, entries |-> <<>>]}

InitFilters ==
    /\ run = 1
    /\ pc = "main"
    /\ cmd = ""
    /\ outcome = "running"
    /\ failedAt = ""
    /\ filters = <<>>
    /\ feed = NilFeed
    /\ cached = FALSE
    /\ newItems = <<>>
    /\ matched = <<>>
    /\ idx = 0
    /\ meta = NoMeta
    /\ stdout = <<>>
    /\ cacheFileData = AbsentFile
    /\ site = <<>>
    /\ startCache = AbsentFile
    /\ startSite = <<>>
    /\ loaded = "none"
    /\ net = "none"
    /\ wrote = FALSE
    /\ opened = <<>>
    /\ filterDir \in FilterTrees
    /\ tmpl = "none"
    /\ io = <<>>

\* main loads the filters of the tree it was pointed at.
LoadTree == \E arg \in Commands : LoadFilters(arg, filterDir)

NextFilters == LoadTree

SpecFilters == InitFilters /\ [][NextFilters]_vars

(***************************************************************************)
(* The claims.                                                             *)
(***************************************************************************)
\* The entries of a document and of a snapshot are the same, in order.
SameEntries(doc, items) ==
    /\ Len(doc.items) = Len(items)
    /\ \A k \in 1..Len(items) :
          /\ doc.items[k].id = items[k].ID
          /\ doc.items[k].title = items[k].Title
          /\ doc.items[k].link = items[k].Link

AllSeen(doc) ==
    /\ doc.unread = 0
    /\ \A k \in 1..Len(doc.items) : doc.items[k].read

\* C1: a cacheFeed that completes leaves, at the cache path, a document that
\* loads back as the entries of the snapshot it was given, in their order,
\* every one seen and the unseen count 0, whatever they were before; and
\* every document at the cache path has every entry seen and the count 0.
C1_SavedCacheAllSeen ==
    [][ /\ cacheFileData'.kind = "doc" => AllSeen(cacheFileData'.data)
        /\ (pc = "cache" /\ wrote') =>
              LET back == loadCachedFeed(cacheFileData', TRUE)
              IN  /\ back.err = "nil"
                  /\ SameEntries(Marshal(back.feed), feed.Items)
                  /\ back.feed.Unread = 0
                  /\ \A k \in 1..Len(back.feed.Items) : back.feed.Items[k].Read ]_vars

\* A save has completed of a snapshot that held unseen entries and a count
\* above 0.
C1_Witness ==
    /\ wrote
    /\ cmd = "new"
    /\ newItems # <<>>
    /\ cacheFileData.kind = "doc"
    /\ Len(cacheFileData.data.items) >= 2

\* C2: in every mode, nothing is on standard output and no page file is
\* created or written before the cache write of the invocation has completed.
C2_CacheBeforeOutput ==
    (stdout # <<>> \/ opened # <<>> \/ site # startSite) => wrote

C2_Witness ==
    /\ cmd = "generate"
    /\ opened # <<>>
    /\ site # startSite
    /\ wrote

\* A title holds the filter string: the characters of the filter stand in
\* the title, in a row and as they are.
IsSubstring(f, t) ==
    \E i \in 0..(Len(t) - Len(f)) : \A j \in 1..Len(f) : t[i + j] = f[j]

TitleMatches(t) == \E n \in DOMAIN filters : IsSubstring(filters[n], t)

\* C3: in "new" mode with no cache file when the invocation began, nothing
\* matches and nothing is written to standard output.
C3_NoCacheNoDigest ==
    (cmd = "new" /\ startCache.kind = "absent") => (stdout = <<>> /\ matched = <<>>)

\* Such an invocation has ended well, having fetched entries, unseen as every
\* fetched entry is, one of which matches a filter.
C3_Witness ==
    /\ cmd = "new"
    /\ startCache.kind = "absent"
    /\ loaded = "notfound"
    /\ outcome = "ok"
    /\ \E k \in 1..Len(feed.Items) : TitleMatches(feed.Items[k].Title)

\* The entries of the document the invocation began with that match a filter.
StaleMatches ==
    SelectSeq(startCache.data.items, LAMBDA e : TitleMatches(e.title))

\* C4: in "all" and "generate" modes, when the cache was loaded and the
\* update failed, fetch_feed returns the loaded snapshot and no error; the
\* invocation goes on to the cache write, and one that ends well has written
\* the cache and rendered the filter matches of that snapshot.
C4_StaleFallback ==
    (cmd \in {"all", "generate"} /\ loaded = "doc" /\ net = "failed") =>
        /\ failedAt # "fetch"
        /\ cached
        /\ SameEntries(startCache.data, feed.Items)
        /\ (pc = "cache" => feed = Unmarshal(startCache.data))
        /\ (pc \in {"template", "match", "output"} => wrote)
        /\ (outcome = "ok" =>
              /\ wrote
              /\ cmd = "all" =>
                    stdout = [k \in 1..Len(StaleMatches) |->
                                 [Title |-> StaleMatches[k].title,
                                  Link |-> StaleMatches[k].link, complete |-> TRUE]]
              /\ cmd = "generate" =>
                    [k \in 1..Len(opened) |-> At(opened[k]).ID]
                        = [k \in 1..Len(StaleMatches) |-> StaleMatches[k].id])

C4_Witness ==
    /\ cmd = "all"
    /\ loaded = "doc"
    /\ net = "failed"
    /\ outcome = "ok"
    /\ stdout # <<>>

\* C5: in "new" mode a failed update or fetch ends the invocation in failure
\* there, with no cache write and no output: the cache file is as it was.
C5_NewModeStrict ==
    (cmd = "new" /\ net = "failed") =>
        /\ pc = "done"
        /\ outcome = "fatal"
        /\ failedAt = "fetch"
        /\ ~wrote
        /\ cacheFileData = startCache
        /\ stdout = <<>>
        /\ site = startSite

C5_Witness ==
    /\ cmd = "new"
    /\ net = "failed"
    /\ loaded = "doc"
    /\ Len(startCache.data.items) >= 1
    /\ outcome = "fatal"

\* C6: the cache path holds the complete document it held when the
\* invocation began or the complete new one, never a file cut short.
C6_AtomicSave ==
    \/ cacheFileData = startCache
    \/ wrote /\ cacheFileData = DocFile(Marshal(feed))

\* C7: after an entry is generated its page file is exactly the newly
\* rendered page, whatever the file held before.
C7_PageTruncated ==
    (cmd = "generate" /\ meta # NoMeta /\ outcome # "fatal") =>
        Content(FileName(meta)) = Page(meta)

\* The candidates whose title holds a filter string, in the candidates' order.
MatchingCandidates == SelectSeq(Candidates, LAMBDA c : TitleMatches(At(c).Title))

\* C8: the matching returns the candidates whose title holds at least one
\* filter string, in their order and each once, whatever the order in which
\* the filters are tried.
C8_MatchIsFilteredSubsequence ==
    /\ pc \in {"match", "output"} =>
          \A o \in Orders(filters) :
              Match(feed.Items, Candidates, filters, o) = MatchingCandidates
    /\ pc = "output" => matched = MatchingCandidates

\* The matching has run on a candidate two filters match and on one none does.
C8_Witness ==
    /\ pc = "output"
    /\ matched # <<>>
    /\ \E k \in 1..Len(Candidates) :
          \E n1, n2 \in DOMAIN filters :
              /\ n1 # n2
              /\ IsSubstring(filters[n1], At(Candidates[k]).Title)
              /\ IsSubstring(filters[n2], At(Candidates[k]).Title)
    /\ \E k \in 1..Len(Candidates) : ~TitleMatches(At(Candidates[k]).Title)

\* The entry cmdGenerate took last.
LastTaken == At(matched[idx])

\* The text of a title before its first "(", and the text after it.
BeforeParen(t) == SubSeq(t, 1, Index(t, <<"(">>))
AfterParen(t) == SubSeq(t, Index(t, <<"(">>) + 2, Len(t))

\* The text inside the parentheses: from the first "(" to the ")" after it.
InsideParens(t) ==
    LET rest == AfterParen(t)
        close == Index(rest, <<")">>)
    IN  IF close < 0 THEN rest ELSE SubSeq(rest, 1, close)

\* That text split at the commas, each piece trimmed.
CommaSeparatedTrimmed(t) ==
    LET pieces == Split(InsideParens(t), <<",">>)
    IN  [k \in 1..Len(pieces) |-> TrimSpace(pieces[k])]

\* C9 as the claim has it: the canonical title is the text before the first
\* "(", trimmed, and the tag list is the text inside the parentheses split at
\* the commas, each tag trimmed.
C9_TagsSplitAtCommas ==
    (cmd = "generate" /\ meta # NoMeta) =>
        /\ meta.Title = TrimSpace(BeforeParen(LastTaken.Title))
        /\ meta.Tags = CommaSeparatedTrimmed(LastTaken.Title)

\* The text the tags are cut from: what follows the first "(" up to the next
\* "(" or the end, without the parentheses at its two ends and then without
\* the white space at its two ends.
TagText(t) ==
    LET rest == AfterParen(t)
        open == Index(rest, <<"(">>)
        segment == IF open < 0 THEN rest ELSE SubSeq(rest, 1, open)
    IN  TrimSpace(Trim(segment, {"(", ")"}))

CanonicalExample == <<"C", "V", "E", "-", "2", "0", "2", "4", "-", "9", "9", "9", "9">>
TagsExample == << <<"L", "i", "n", "u", "x">>, <<"K", "e", "r", "n", "e", "l">> >>

\* C9: the canonical title is the text before the first "(", trimmed; the
\* tags are the pieces of the tag text between the occurrences of ", " (a
\* comma and a space), as they stand; for "CVE-2024-9999 (Linux, Kernel)"
\* they are "CVE-2024-9999" and "Linux", "Kernel".
C9_TagsSplitAtCommaSpace ==
    (cmd = "generate" /\ meta # NoMeta) =>
        /\ meta.Title = TrimSpace(BeforeParen(LastTaken.Title))
        /\ Join(meta.Tags, <<",", " ">>) = TagText(LastTaken.Title)
        /\ \A k \in 1..Len(meta.Tags) : ~IsSubstring(<<",", " ">>, meta.Tags[k])
        /\ meta.Link = LastTaken.Link
        /\ LastTaken.Title = TitleExample =>
              meta.Title = CanonicalExample /\ meta.Tags = TagsExample

C9_Witness ==
    /\ cmd = "generate"
    /\ opened # <<>>
    /\ LastTaken.Title = TitleExample
    /\ meta.Tags = TagsExample
    /\ Content(FileName(meta)) = Page(meta)

\* The page files once the first k matched entries are generated, from the
\* files the invocation began with.
RECURSIVE SiteAfter(_)
SiteAfter(k) ==
    IF k = 0 THEN startSite
    ELSE LET prev == SiteAfter(k - 1)
             m == PageMeta(At(matched[k]))
             name == FileName(m)
         IN  [f \in DOMAIN prev \cup {name} |->
                 IF f = name THEN WriteOver(ContentIn(prev, name), Page(m)) ELSE prev[f]]

\* The number of matched entries before the one that failed.
Before == IF outcome = "panic" THEN idx ELSE idx - 1

CacheWriteFailed == (\E k \in 1..Len(io) : io[k] = "write") /\ ~wrote

\* C11: in every mode, an invocation whose cache write fails ends there as a
\* failure: nothing is on standard output, and no page file is opened,
\* created or written.
C11_CacheWriteFailureAborts ==
    CacheWriteFailed =>
        /\ pc = "done"
        /\ outcome = "fatal"
        /\ failedAt = "cache"
        /\ stdout = <<>>
        /\ opened = <<>>
        /\ site = startSite

\* A "generate" invocation whose cache write was cut short, holding entries
\* that match a filter.
C11_Witness ==
    /\ CacheWriteFailed
    /\ cmd = "generate"
    /\ cacheFileData.kind = "partial"
    /\ startCache.kind = "doc"
    /\ \E k \in 1..Len(feed.Items) : TitleMatches(feed.Items[k].Title)

\* C12: in every mode, when WalkAllFilesInFilterDir fails the invocation ends
\* in main as a failure: the cache is not loaded, the feed source is not
\* called, the cache is not written and nothing is put out.
C12_FilterFailureIsFatalFirst ==
    (pc # "main" /\ WalkAllFilesInFilterDir(filterDir).err # "nil") =>
        /\ pc = "done"
        /\ outcome = "fatal"
        /\ failedAt = "main"
        /\ feed = NilFeed
        /\ loaded = "none"
        /\ net = "none"
        /\ io = <<>>
        /\ ~wrote
        /\ cacheFileData = startCache
        /\ stdout = <<>>
        /\ opened = <<>>
        /\ site = startSite

\* A mode was given, a cache file is there, and a filter file is blank.
C12_Witness ==
    /\ pc = "done"
    /\ cmd \in Modes
    /\ WalkAllFilesInFilterDir(filterDir).err = "ErrEmptyFilterFile"
    /\ startCache.kind = "doc"
    /\ Len(startCache.data.items) > 0

\* The regular files of a tree, in the order of the walk.
RegularFiles(dir) == SelectSeq(dir.entries, LAMBDA e : e.regular)

\* A line is blank: it holds white space and nothing else.
BlankLine(l) == \A i \in 1..Len(l) : l[i] \in WhiteSpace

\* A file is entirely blank: it has no line that is not.
BlankFile(e) == \A k \in 1..Len(e.lines) : BlankLine(e.lines[k])

\* The first line of a file that is not blank, as it stands.
FirstNonBlank(e) ==
    LET k == CHOOSE i \in 1..Len(e.lines) :
                 /\ ~BlankLine(e.lines[i])
                 /\ \A j \in 1..(i - 1) : BlankLine(e.lines[j])
    IN  e.lines[k]

\* The last regular file of the walk that has base name n.
LastNamed(dir, n) ==
    LET regs == RegularFiles(dir)
        k == CHOOSE i \in 1..Len(regs) :
                 /\ regs[i].name = n
                 /\ \A j \in (i + 1)..Len(regs) : regs[j].name # n
    IN  regs[k]

\* The load fails or gives a mapping; with a blank regular file in the tree
\* it fails, with an ErrEmptyFilterFile that names a blank file, and gives
\* no mapping.
LoadFailsOnBlank ==
    LET r == WalkAllFilesInFilterDir(filterDir)
        regs == RegularFiles(filterDir)
    IN  /\ r.err # "nil" => (filters = <<>> /\ r.filters = <<>> /\ outcome = "fatal")
        /\ r.err = "nil" => filters = r.filters
        /\ (\E k \in 1..Len(regs) : BlankFile(regs[k])) =>
              /\ r.err = "ErrEmptyFilterFile"
              /\ \E k \in 1..Len(regs) : BlankFile(regs[k]) /\ r.file = regs[k].path
        /\ (~filterDir.readErr /\ \A k \in 1..Len(regs) : ~BlankFile(regs[k])) =>
              /\ r.err = "nil"
              /\ DOMAIN filters = {regs[k].name : k \in 1..Len(regs)}
              /\ \A n \in DOMAIN filters : filters[n] # <<>>

C14_UsageErrorsPutNothingOut ==
    /\ (pc # "main" /\ cmd \notin Modes) =>
          /\ pc = "done"
          /\ outcome = "fatal"
          /\ failedAt = "main"
          /\ loaded = "none"
          /\ net = "none"
          /\ io = <<>>
          /\ ~wrote
          /\ cacheFileData = startCache
          /\ stdout = <<>>
          /\ opened = <<>>
          /\ site = startSite
    /\ tmpl = "error" =>
          /\ pc = "done"
          /\ outcome = "fatal"
          /\ failedAt = "template"
          /\ stdout = <<>>
          /\ opened = <<>>
          /\ site = startSite

\* The template of an "all" invocation did not parse, with entries at hand
\* that match a filter.
C14_Witness ==
    /\ tmpl = "error"
    /\ cmd = "all"
    /\ \E k \in 1..Len(feed.Items) : TitleMatches(feed.Items[k].Title)

\* The calls of the invocation that reached the feed source, in order.
NetCalls == SelectSeq(io, LAMBDA c : c \in {"update", "fetch"})

\* C15: one invocation, in any mode and on any path, calls the feed source at
\* most once (one update of the loaded cache or one fetch, never both) and
\* writes the cache at most once, and the cache write comes after the call on
\* the feed source.
C15_OneNetOpOneWrite ==
    /\ Len(NetCalls) <= 1
    /\ Cardinality({k \in 1..Len(io) : io[k] = "write"}) <= 1
    /\ \A k \in 1..Len(io) : io[k] = "write" => \E j \in 1..(k - 1) : io[j] \in {"update", "fetch"}
    /\ (net = "none") = (NetCalls = <<>>)
    /\ (loaded = "doc" /\ net # "none") => NetCalls = <<"update">>
    /\ (loaded = "notfound" /\ net # "none") => NetCalls = <<"fetch">>
    /\ wrote => (\E k \in 1..Len(io) : io[k] = "write")

\* An update of the loaded cache failed, the invocation went on with the
\* loaded snapshot, and the cache was written.
C15_Witness ==
    /\ io = <<"update", "write">>
    /\ loaded = "doc"
    /\ net = "failed"
    /\ wrote
    /\ outcome = "ok"

\* Entry k of the snapshot was unseen right after the update: the update
\* appended it, or the loaded document held it unseen.
UnseenAfterUpdate(k) ==
    \/ k > Len(startCache.data.items)
    \/ ~startCache.data.items[k].read

\* The entries unseen right after the update, and those of them whose title
\* matches a filter, in snapshot order.
UnseenEntries == SelectSeq([k \in 1..Len(feed.Items) |-> k], UnseenAfterUpdate)
UnseenMatches == SelectSeq(UnseenEntries, LAMBDA k : TitleMatches(At(k).Title))

\* C16: in "new" mode with the cache loaded and the update successful, the
\* digest is one record for each entry that was unseen right after the update
\* and whose title matches a filter, in snapshot order; cacheFeed marking
\* every entry seen before the rendering takes none of them away.
C16_DigestIsUnseenMatches ==
    (cmd = "new" /\ loaded = "doc" /\ net = "ok") =>
        /\ pc = "cache" =>
              \A k \in 1..Len(feed.Items) : feed.Items[k].Read = ~UnseenAfterUpdate(k)
        /\ wrote =>
              /\ newItems = UnseenEntries
              /\ \A k \in 1..Len(feed.Items) : feed.Items[k].Read
        /\ (pc = "output" \/ outcome = "ok") => matched = UnseenMatches
        /\ Len(stdout) <= Len(UnseenMatches)
        /\ \A k \in 1..Len(stdout) :
              /\ stdout[k].Title = At(UnseenMatches[k]).Title
              /\ stdout[k].Link = At(UnseenMatches[k]).Link
        /\ outcome = "ok" =>
              stdout = [k \in 1..Len(UnseenMatches) |-> Record(At(UnseenMatches[k]), TRUE)]

\* Such a digest was put out, of an entry the update brought, while an entry
\* the cache held before matches a filter too and is not in it.
C16_Witness ==
    /\ cmd = "new"
    /\ loaded = "doc"
    /\ net = "ok"
    /\ outcome = "ok"
    /\ stdout # <<>>
    /\ \E k \in 1..Len(startCache.data.items) : TitleMatches(feed.Items[k].Title)

\* The entries of the snapshot whose title matches a filter, in snapshot
\* order, seen or not.
SnapshotMatches ==
    SelectSeq([k \in 1..Len(feed.Items) |-> k], LAMBDA k : TitleMatches(feed.Items[k].Title))

\* C17: in "all" mode the rendered entries, and in "generate" mode the
\* entries taken for pages, are every entry of the snapshot whose title
\* matches a filter, in snapshot order, whether the entry was seen or not
\* and whether the snapshot is an updated cache, a stale cache or a fetch.
C17_AllRendersEveryMatch ==
    cmd \in {"all", "generate"} =>
        /\ (pc = "output" \/ outcome = "ok") => matched = SnapshotMatches
        /\ cmd = "all" =>
              /\ Len(stdout) <= Len(SnapshotMatches)
              /\ \A k \in 1..Len(stdout) :
                    /\ stdout[k].Title = At(SnapshotMatches[k]).Title
                    /\ stdout[k].Link = At(SnapshotMatches[k]).Link
              /\ outcome = "ok" =>
                    stdout = [k \in 1..Len(SnapshotMatches) |->
                                 Record(At(SnapshotMatches[k]), TRUE)]
        /\ cmd = "generate" =>
              /\ Len(opened) <= Len(SnapshotMatches)
              /\ \A k \in 1..Len(opened) : opened[k] = SnapshotMatches[k]

\* An "all" invocation rendered an entry the cache held as seen and, after
\* it, an entry the update brought.
C17_Witness ==
    /\ cmd = "all"
    /\ loaded = "doc"
    /\ net = "ok"
    /\ outcome = "ok"
    /\ Len(stdout) >= 2
    /\ matched[1] <= Len(startCache.data.items)
    /\ startCache.data.items[matched[1]].read
    /\ matched[Len(matched)] > Len(startCache.data.items)

\* C18: when the cache file is there and does not load (unreadable, or not a
\* JSON snapshot), fetch_feed does not call Update on the absent snapshot: in
\* every mode it returns an error, and the invocation ends as a reported
\* failure, the feed source not called, the cache not written, nothing put
\* out.
C18_LoadErrorIsReportedFailure ==
    loaded = "error" =>
        /\ pc = "done"
        /\ outcome = "fatal"
        /\ failedAt = "fetch"
        /\ io = <<>>
        /\ ~wrote
        /\ cacheFileData = startCache
        /\ stdout = <<>>
        /\ opened = <<>>
        /\ site = startSite

\* The links of the entries a document holds.
Persisted(file) ==
    IF file.kind = "doc" THEN {file.data.items[k].link : k \in 1..Len(file.data.items)} ELSE {}

C20_BadTemplateLeavesCache ==
    tmpl = "error" =>
        /\ cacheFileData = startCache
        /\ \A k \in 1..Len(newItems) : At(newItems[k]).Link \notin Persisted(cacheFileData)

\* C20, amended: such an invocation has written the cache before it came to
\* its template: the cache file holds the snapshot of the invocation, every
\* entry seen, the entries that were new among them, and a "new" invocation
\* that loads it reports none of them, whatever the feed source answers.
C20_BadTemplateAfterCacheWrite ==
    tmpl = "error" =>
        /\ wrote
        /\ outcome = "fatal"
        /\ stdout = <<>>
        /\ cacheFileData = DocFile(Marshal(feed))
        /\ AllSeen(cacheFileData.data)
        /\ \A k \in 1..Len(newItems) : At(newItems[k]).Link \in Persisted(cacheFileData)
        /\ LET next == loadCachedFeed(cacheFileData, TRUE).feed
           IN  \A answer \in UpstreamAnswers :
                  LET updated == Update(next, answer)
                      fresh == NewItems(updated, TRUE)
                  IN  \A j \in 1..Len(fresh) :
                         updated.Items[fresh[j]].Link \notin Persisted(cacheFileData)

\* A "new" invocation whose template did not parse, with an entry new in it
\* that matches a filter, and the cache file no longer what it was.
C20_Witness ==
    /\ tmpl = "error"
    /\ cmd = "new"
    /\ cacheFileData # startCache
    /\ \E k \in 1..Len(newItems) : TitleMatches(At(newItems[k]).Title)

====
